---- MODULE Spec2Model ----
(***************************************************************************)
(* Order handling of the trading backend, backend/src/index.ts: options    *)
(* order placement, app.post("/api/options/orders"), with stock order      *)
(* placement, app.post("/api/orders"), cancellation of all orders,         *)
(* app.delete("/api/orders"), and the trading-mode endpoint.               *)
(*                                                                         *)
(* One placement call is followed from the request to the response.  The   *)
(* handler is an async function: every await of a remote call is a point   *)
(* where the broker answers, so each order submission is two steps (the    *)
(* handler issues it, the broker settles it) followed by the handler's     *)
(* continuation.                                                           *)
(*                                                                         *)
(* Strings are kept as strings; a broker message is a sequence of phrases  *)
(* and String.includes is membership of a phrase in that sequence.         *)
(* Prices are thousandths, limit prices hundredths, quantities tenths.     *)
(***************************************************************************)
EXTENDS Integers, Sequences, FiniteSets, TLC

VARIABLES pc, req, existingPosition, positionRead, smartSide, orderData,
          subs, calls, res,
          modes, apiUrl,
          tradingMode, modeRes, modeCalls,
          openOrders, served,
          route, listed, cancelResults,
          parked, brokerPosition, validModes

\* the process-wide trading mode, the last answer of its endpoint, the number
\* of POSTs to it and the modes set by the valid ones
modeVars == <<tradingMode, modeRes, modeCalls, validModes>>

\* the broker's open orders and the number of calls served so far
bookVars == <<openOrders, served>>

\* the orders listed for DELETE /api/orders and the results of its cancels
cancelVars == <<listed, cancelResults>>

\* the call that is suspended at an await while this one runs, and the
\* broker's position in the order's symbol as of its last read or change
envVars == <<parked, brokerPosition>>

vars == <<pc, req, existingPosition, positionRead, smartSide, orderData,
          subs, calls, res, modes, apiUrl, modeVars, bookVars,
          route, cancelVars, envVars>>

----------------------------------------------------------------------------
(* Bounds *)

MaxPositions == 2

\* calls to POST /api/trading-mode
MaxModeCalls == 2

\* placement calls served one after the other
MaxCalls == 3

----------------------------------------------------------------------------
(* Request bodies *)

QualifiedSides == {"buy_to_open", "buy_to_close", "sell_to_open", "sell_to_close"}

\* "" stands for a request without side, "hold" for a side that is no order side
RequestSides == {"", "buy", "sell", "BUY", "Sell", "hold"} \cup QualifiedSides

RequestSymbols == {"", "xyz"}

RequestQuantities == {0, 10, 25}

RequestPrices == {0, 1446}

\* "" stands for a request without orderType
OrderTypes == {"", "limit", "market"}

Requests ==
  [symbol : RequestSymbols, side : RequestSides, quantity : RequestQuantities,
   price : RequestPrices, orderType : OrderTypes]

NoRequest ==
  [symbol |-> "", side |-> "", quantity |-> 0, price |-> 0, orderType |-> ""]

----------------------------------------------------------------------------
(* JavaScript conversions used by the handler *)

ToUpperCase(s) ==
  CASE s = "xyz" -> "XYZ"
    [] s = "abc" -> "ABC"
    [] s = "xyz240101c00100000" -> "XYZ240101C00100000"
    [] s = "buy" -> "BUY"
    [] s = "sell" -> "SELL"
    [] s = "Sell" -> "SELL"
    [] s = "buy_to_open" -> "BUY_TO_OPEN"
    [] s = "buy_to_close" -> "BUY_TO_CLOSE"
    [] s = "sell_to_open" -> "SELL_TO_OPEN"
    [] s = "sell_to_close" -> "SELL_TO_CLOSE"
    [] OTHER -> s

ToLowerCase(s) ==
  CASE s = "BUY" -> "buy"
    [] s = "Sell" -> "sell"
    [] s = "SELL" -> "sell"
    [] s = "XYZ" -> "xyz"
    [] OTHER -> s

\* parseFloat of a position quantity string: a number or NaN
ParseFloat(s) ==
  CASE s = "-2" -> [nan |-> FALSE, val |-> -2]
    [] s = "-1" -> [nan |-> FALSE, val |-> -1]
    [] s = "0" -> [nan |-> FALSE, val |-> 0]
    [] s = "1" -> [nan |-> FALSE, val |-> 1]
    [] s = "2" -> [nan |-> FALSE, val |-> 2]
    [] OTHER -> [nan |-> TRUE, val |-> 0]

\* comparisons with NaN are false
Gt(x, n) == ~x.nan /\ x.val > n
Lt(x, n) == ~x.nan /\ x.val < n
Le(x, n) == ~x.nan /\ x.val <= n
Ge(x, n) == ~x.nan /\ x.val >= n

\* the quantity is sent as it came (not what the handler does)
ParseIntSkipped(q) == q

\* parseInt of a quantity given in tenths: the whole part, in tenths
ParseInt(q) == (q \div 10) * 10

\* the price is cut after two decimals (not what the handler does)
ToFixed2Truncating(p) == p \div 10

\* parseFloat(price).toFixed(2): thousandths to hundredths, rounded
ToFixed2(p) == (p + 5) \div 10

\* String.prototype.includes on a message made of phrases
Includes(msg, phrase) == \E i \in DOMAIN msg : msg[i] = phrase

\* JavaScript falsiness of a request field: a missing or empty string, a zero
FalsyString(v) == v = ""
FalsyNumber(v) == v = 0

----------------------------------------------------------------------------
(* The broker *)

PositionSymbols == {"XYZ", "ABC"}

PositionQtys == {"-1", "0", "1", "n/a"}

PositionRecords ==
  { [symbol |-> s, qty |-> q, side |-> IF q = "-1" THEN "short" ELSE "long"] :
      s \in PositionSymbols, q \in PositionQtys }

NoPosition == [symbol |-> "", qty |-> "", side |-> ""]

RECURSIVE SeqsUpTo(_, _)
SeqsUpTo(S, n) ==
  IF n = 0 THEN {<<>>}
  ELSE LET shorter == SeqsUpTo(S, n - 1)
       IN  shorter \cup { Append(s, x) : s \in {t \in shorter : Len(t) = n - 1}, x \in S }

PositionLists == SeqsUpTo(PositionRecords, MaxPositions)

WashTrade == "potential wash trade detected"
ShortSell == "cannot open a short sell while a long buy order is open"

Pending ==
  [kind |-> "pending", status |-> 0, parses |-> TRUE, message |-> <<>>, error |-> <<>>,
   reject_reason |-> <<>>]

\* what the broker can answer to an order submission: the order is accepted
\* (HTTP ok; the body may fail to parse), rejected (HTTP status, body with
\* message and error fields, or a body that is no JSON and is kept as text),
\* or the call throws without an answer
Accepts ==
  [kind : {"accepted"}, status : {200}, parses : BOOLEAN, message : {<<>>}, error : {<<>>},
   reject_reason : {<<>>}]

Rejected(status, parses, message, error) ==
  [kind |-> "rejected", status |-> status, parses |-> parses,
   message |-> message, error |-> error, reject_reason |-> <<>>]

\* a rejection whose body has a reject_reason and no message
RejectedFor(status, reason) ==
  [kind |-> "rejected", status |-> status, parses |-> TRUE,
   message |-> <<>>, error |-> <<>>, reject_reason |-> reason]

Rejections ==
  { Rejected(500, TRUE, <<>>, <<>>),
    Rejected(403, TRUE, <<>>, <<"forbidden">>),
    RejectedFor(422, <<"market closed">>),
    Rejected(403, TRUE, <<"not authorized">>, <<>>),
    Rejected(403, TRUE, <<"insufficient buying power">>, <<>>),
    Rejected(403, TRUE, <<WashTrade>>, <<>>),
    Rejected(403, TRUE, <<ShortSell>>, <<>>),
    Rejected(422, TRUE, <<ShortSell, WashTrade>>, <<>>),
    Rejected(502, FALSE, <<"Bad Gateway">>, <<>>),
    Rejected(422, FALSE, <<WashTrade>>, <<>>) }

Throws ==
  [kind : {"threw"}, status : {0}, parses : {TRUE}, message : {<<>>}, error : {<<>>},
   reject_reason : {<<>>}]

Answers == Accepts \cup Rejections \cup Throws

----------------------------------------------------------------------------
(* Side resolution and the order body *)

\* positions.find(pos => pos.symbol === symbol.toUpperCase())
RECURSIVE Find(_, _)
Find(positions, symbol) ==
  IF positions = <<>> THEN NoPosition
  ELSE IF Head(positions).symbol = symbol THEN Head(positions)
  ELSE Find(Tail(positions), symbol)

\* the long-position test accepts a zero quantity
ResolveSideLongAtZero(side, existing) ==
  IF existing # NoPosition
  THEN IF ToLowerCase(side) = "sell" /\ Ge(ParseFloat(existing.qty), 0) THEN "sell_to_close"
       ELSE IF ToLowerCase(side) = "buy" /\ Lt(ParseFloat(existing.qty), 0) THEN "buy_to_close"
       ELSE IF ToLowerCase(side) = "sell" /\ Le(ParseFloat(existing.qty), 0) THEN "sell_to_open"
       ELSE IF ToLowerCase(side) = "buy" /\ Ge(ParseFloat(existing.qty), 0) THEN "buy_to_open"
       ELSE side
  ELSE IF ToLowerCase(side) = "buy" THEN "buy_to_open"
       ELSE IF ToLowerCase(side) = "sell" THEN "sell_to_open"
       ELSE side

\* the last two tests are strict, so a zero quantity matches no branch
ResolveSideStrict(side, existing) ==
  IF existing # NoPosition
  THEN IF ToLowerCase(side) = "sell" /\ Gt(ParseFloat(existing.qty), 0) THEN "sell_to_close"
       ELSE IF ToLowerCase(side) = "buy" /\ Lt(ParseFloat(existing.qty), 0) THEN "buy_to_close"
       ELSE IF ToLowerCase(side) = "sell" /\ Lt(ParseFloat(existing.qty), 0) THEN "sell_to_open"
       ELSE IF ToLowerCase(side) = "buy" /\ Gt(ParseFloat(existing.qty), 0) THEN "buy_to_open"
       ELSE side
  ELSE IF ToLowerCase(side) = "buy" THEN "buy_to_open"
       ELSE IF ToLowerCase(side) = "sell" THEN "sell_to_open"
       ELSE side

\* the direction of a side: its first word
Direction(side) ==
  IF side \in {"buy", "BUY", "buy_to_open", "buy_to_close"} THEN "buy"
  ELSE IF side \in {"sell", "Sell", "sell_to_open", "sell_to_close"} THEN "sell"
  ELSE side

\* the tests look at the direction of the side instead of the whole side
ResolveSideByDirection(side, existing) ==
  IF existing # NoPosition
  THEN IF Direction(side) = "sell" /\ Gt(ParseFloat(existing.qty), 0) THEN "sell_to_close"
       ELSE IF Direction(side) = "buy" /\ Lt(ParseFloat(existing.qty), 0) THEN "buy_to_close"
       ELSE IF Direction(side) = "sell" /\ Le(ParseFloat(existing.qty), 0) THEN "sell_to_open"
       ELSE IF Direction(side) = "buy" /\ Ge(ParseFloat(existing.qty), 0) THEN "buy_to_open"
       ELSE side
  ELSE IF Direction(side) = "buy" THEN "buy_to_open"
       ELSE IF Direction(side) = "sell" THEN "sell_to_open"
       ELSE side

\* smartSide after a position query that returned
ResolveSide(side, existing) ==
  IF existing # NoPosition
  THEN IF ToLowerCase(side) = "sell" /\ Gt(ParseFloat(existing.qty), 0) THEN "sell_to_close"
       ELSE IF ToLowerCase(side) = "buy" /\ Lt(ParseFloat(existing.qty), 0) THEN "buy_to_close"
       ELSE IF ToLowerCase(side) = "sell" /\ Le(ParseFloat(existing.qty), 0) THEN "sell_to_open"
       ELSE IF ToLowerCase(side) = "buy" /\ Ge(ParseFloat(existing.qty), 0) THEN "buy_to_open"
       ELSE side
  ELSE IF ToLowerCase(side) = "buy" THEN "buy_to_open"
       ELSE IF ToLowerCase(side) = "sell" THEN "sell_to_open"
       ELSE side

\* smartSide when the position query threw: the catch leaves `let smartSide = side`
UnresolvedSide(side) == side

\* only buy_to_open is sent as a buy
WireSideOpenOnly(smart) ==
  IF smart = "buy_to_open" THEN "buy" ELSE "sell"

\* orderData.side
WireSide(smart) ==
  IF smart = "buy_to_open" \/ smart = "buy_to_close" THEN "buy" ELSE "sell"

NoOrder ==
  [symbol |-> "", qty |-> 0, side |-> "", type |-> "", time_in_force |-> "",
   has_limit_price |-> FALSE, limit_price |-> 0, order_class |-> ""]

OrderData(r, smart) ==
  [symbol |-> ToUpperCase(r.symbol),
   qty |-> ParseInt(r.quantity),
   side |-> WireSide(smart),
   type |-> r.orderType,
   time_in_force |-> "day",
   has_limit_price |-> (r.orderType = "limit"),
   limit_price |-> IF r.orderType = "limit" THEN ToFixed2(r.price) ELSE 0,
   order_class |-> ""]

\* the resubmission changes the time in force
RetryOrderDataGtc(order) == [order EXCEPT !.time_in_force = "gtc"]

\* retryOrderData = { ...orderData }; retryOrderData.time_in_force = "day"
RetryOrderData(order) == [order EXCEPT !.time_in_force = "day"]

\* alternativeOrderData = { ...orderData }; alternativeOrderData.order_class = "simple"
AlternativeOrderData(order) == [order EXCEPT !.order_class = "simple"]

\* orderData of a stock order: the side is sent as it came
StockOrderData(r) ==
  [symbol |-> ToUpperCase(r.symbol),
   qty |-> ParseInt(r.quantity),
   side |-> r.side,
   type |-> r.orderType,
   time_in_force |-> "day",
   has_limit_price |-> (r.orderType = "limit"),
   limit_price |-> IF r.orderType = "limit" THEN ToFixed2(r.price) ELSE 0,
   order_class |-> ""]

\* every open order for the symbol is cancelled before a new one is placed
\* (not what the handlers do)
ConflictsSameSymbol(order, existing) == existing.symbol = order.symbol

\* whether placing an order cancels an existing one: "Allow all orders to
\* coexist - no automatic cancellation"
Conflicts(order, existing) == FALSE

\* the open orders left after the cancellations of a placement
KeepOpen(order, open) == SelectSeq(open, LAMBDA o : ~Conflicts(order, o))

\* the remote calls of a placement: the cancellations, then createOrder
PlacementCalls(order, open) ==
  [i \in 1..Len(SelectSeq(open, LAMBDA o : Conflicts(order, o))) |-> "cancelOrder"]
    \o <<"createOrder">>

----------------------------------------------------------------------------
(* Classification of a rejected direct submission *)

NoErrorData == [message |-> <<>>, error |-> <<>>, reject_reason |-> <<>>]

\* errorData = JSON.parse(responseText), or { message: responseText }
ErrorData(ans) ==
  IF ans.parses
  THEN [message |-> ans.message, error |-> ans.error, reject_reason |-> ans.reject_reason]
  ELSE [message |-> ans.message, error |-> <<>>, reject_reason |-> <<>>]

\* first test of the if / else-if chain
IsPositionRestriction(ed) == ed.message # <<>> /\ Includes(ed.message, ShortSell)

\* any broker message counts as a wash-trade rejection
IsWashTradeAnyMessage(ed) == ed.message # <<>>

\* second test of the chain
IsWashTrade(ed) == ed.message # <<>> /\ Includes(ed.message, WashTrade)

\* third test of the chain, same condition as the first
IsMarginRestriction(ed) == ed.message # <<>> /\ Includes(ed.message, ShortSell)

\* which branch of the chain runs: only the second and third resubmit
RetryPlan(ed) ==
  IF IsPositionRestriction(ed) THEN "none"
  ELSE IF IsWashTrade(ed) THEN "retry_after_wash_trade"
  ELSE IF IsMarginRestriction(ed) THEN "alternative_margin_approach"
  ELSE "none"

RetryBody(plan, order) ==
  IF plan = "alternative_margin_approach" THEN AlternativeOrderData(order)
  ELSE RetryOrderData(order)

EnhancedErrorMessage(ed) ==
  IF IsPositionRestriction(ed)
  THEN <<"Broker restriction: ">> \o ed.message
  ELSE IF IsWashTrade(ed)
  THEN <<"Wash trade detection triggered: ">> \o ed.message
  ELSE IF IsMarginRestriction(ed)
  THEN <<"Position restriction: ">> \o ed.message
  ELSE IF ed.message # <<>> THEN ed.message
  ELSE IF ed.error # <<>> THEN ed.error
  ELSE <<"Options order failed">>

----------------------------------------------------------------------------
(* Responses *)

PositionInfo(existing) == [qty |-> existing.qty, side |-> existing.side]

NoPositionInfo == [qty |-> "", side |-> ""]

\* the order object of a response: the fields the handler copies from the
\* broker's order
NoEcho ==
  [symbol |-> "", side |-> "", qty |-> 0, type |-> "",
   has_limit_price |-> FALSE, limit_price |-> 0]

\* the order a broker returns for an accepted submission: it echoes the body
Echo(body) ==
  [symbol |-> body.symbol, side |-> body.side, qty |-> body.qty, type |-> body.type,
   has_limit_price |-> body.has_limit_price, limit_price |-> body.limit_price]

Suggestions ==
  << "Use a margin account to allow simultaneous long/short positions",
     "Close existing positions before placing opposing orders",
     "Use 'sell_to_close' instead of 'sell_to_open' if you have long positions",
     "Use 'buy_to_close' instead of 'buy_to_open' if you have short positions" >>

\* apiUrl of the direct POST and of the retry
ApiUrl(mode) ==
  IF mode = "paper" THEN "https://paper-api.alpaca.markets" ELSE "https://api.alpaca.markets"

\* the account a URL belongs to
ModeOfUrl(url) == IF url = "https://paper-api.alpaca.markets" THEN "paper" ELSE "live"

BlankResponse ==
  [status |-> 0, success |-> FALSE, keys |-> {}, method |-> "", error |-> <<>>,
   smart_side |-> "", original_side |-> "", position_info |-> NoPositionInfo,
   details |-> NoErrorData, order_data |-> NoOrder, order |-> NoEcho,
   suggestions |-> <<>>, api_url |-> "", trading_mode |-> "",
   cancelled |-> 0, cancelled_orders |-> <<>>]

ValidationResponse ==
  [BlankResponse EXCEPT
     !.status = 400,
     !.keys = {"success", "error"},
     !.error = <<"Missing required fields: symbol, side, quantity, price">>]

\* success response of the SDK attempt and of the direct attempt
PlacedResponse(method, smart, side, existing, order) ==
  [BlankResponse EXCEPT
     !.status = 200,
     !.order = order,
     !.success = TRUE,
     !.keys = {"success", "order", "message", "method", "smart_side",
               "original_side", "position_info"},
     !.method = method,
     !.smart_side = smart,
     !.original_side = side,
     !.position_info = IF existing # NoPosition THEN PositionInfo(existing)
                       ELSE NoPositionInfo]

\* success response of the resubmission
RetriedResponse(method, smart, side, order) ==
  [BlankResponse EXCEPT
     !.status = 200,
     !.order = order,
     !.success = TRUE,
     !.keys = {"success", "order", "message", "method", "smart_side", "original_side"},
     !.method = method,
     !.smart_side = smart,
     !.original_side = side]

\* the rejection response without the remediation hints (not what the
\* handler does)
RejectionResponseBare(ans, order, smart, side, existing) ==
  [BlankResponse EXCEPT
     !.status = ans.status,
     !.keys = {"success", "error", "details", "debug_info"},
     !.api_url = apiUrl,
     !.trading_mode = tradingMode,
     !.error = EnhancedErrorMessage(ErrorData(ans)),
     !.details = ErrorData(ans),
     !.order_data = order,
     !.smart_side = smart,
     !.original_side = side,
     !.position_info = IF existing # NoPosition THEN PositionInfo(existing)
                       ELSE NoPositionInfo]

\* res.status(response.status).json({ success: false, ... })
RejectionResponse(ans, order, smart, side, existing) ==
  [BlankResponse EXCEPT
     !.status = ans.status,
     !.keys = {"success", "error", "details", "debug_info", "suggestions"},
     !.suggestions = Suggestions,
     !.api_url = apiUrl,
     !.trading_mode = tradingMode,
     !.error = EnhancedErrorMessage(ErrorData(ans)),
     !.details = ErrorData(ans),
     !.order_data = order,
     !.smart_side = smart,
     !.original_side = side,
     !.position_info = IF existing # NoPosition THEN PositionInfo(existing)
                       ELSE NoPositionInfo]

InvalidBodyResponse ==
  [BlankResponse EXCEPT
     !.status = 500,
     !.keys = {"success", "error", "details"},
     !.error = <<"Invalid response from Alpaca API">>]

\* the outer catch, for an error without a response property
CaughtResponse ==
  [BlankResponse EXCEPT
     !.status = 500,
     !.keys = {"success", "error", "details", "troubleshooting"},
     !.trading_mode = tradingMode,
     !.error = <<"Failed to place options order">>]

----------------------------------------------------------------------------
(* Responses of the stock order endpoint *)

OptionsSymbolResponse ==
  [BlankResponse EXCEPT
     !.status = 400,
     !.keys = {"success", "error", "details"},
     !.error = <<"Options orders should use the /api/options/orders endpoint">>]

InvalidSideResponse ==
  [BlankResponse EXCEPT
     !.status = 400,
     !.keys = {"success", "error"},
     !.error = <<"Side must be 'buy' or 'sell'">>]

StockPlacedResponse(order) ==
  [BlankResponse EXCEPT
     !.status = 200,
     !.success = TRUE,
     !.keys = {"success", "order", "message"},
     !.order = order]

\* errorData.message, else reject_reason, else error, else the default text
StockErrorMessage(ed) ==
  IF ed.message # <<>> THEN ed.message
  ELSE IF ed.reject_reason # <<>> THEN ed.reject_reason
  ELSE IF ed.error # <<>> THEN ed.error
  ELSE <<"Failed to place order">>

\* the catch, for an error of the SDK that has a response
StockRejectionResponse(ans) ==
  [BlankResponse EXCEPT
     !.status = IF ans.status = 0 THEN 500 ELSE ans.status,
     !.keys = {"success", "error", "details"},
     !.error = StockErrorMessage(ErrorData(ans)),
     !.details = ErrorData(ans)]

\* the catch, for an error without a response
StockCaughtResponse ==
  [BlankResponse EXCEPT
     !.status = 500,
     !.keys = {"success", "error", "details"},
     !.error = <<"Failed to place order">>]

----------------------------------------------------------------------------
(* The handler *)

Submission(via, body) == [via |-> via, body |-> body, outcome |-> Pending]

\* the continuation runs without awaiting the submission
SettledNoAwait(sub) == TRUE

\* the resubmission is not awaited (not what the handler does)
SettledButRetry(sub) == sub.via = "retry" \/ sub.outcome.kind # "pending"

\* an awaited submission has resolved or rejected
Settled(sub) == sub.outcome.kind # "pending"

Current == subs[Len(subs)]

\* const { symbol, side, quantity, price, orderType = "limit" } = req.body
Destructure(r) ==
  [r EXCEPT !.orderType = IF r.orderType = "" THEN "limit" ELSE r.orderType]

MissingRequiredField(r) ==
  FalsyString(r.symbol) \/ FalsyString(r.side) \/ FalsyNumber(r.quantity) \/ FalsyNumber(r.price)

NoModeResponse == [method |-> "", status |-> 0, success |-> FALSE, mode |-> ""]

ModeInputs == {"paper", "live", "demo"}

\* the state of a call that has not started
IdleCall ==
  [pc |-> "idle", req |-> NoRequest, existingPosition |-> NoPosition,
   positionRead |-> "none", smartSide |-> "", orderData |-> NoOrder,
   subs |-> <<>>, calls |-> <<>>, res |-> <<>>, modes |-> <<>>, apiUrl |-> "",
   route |-> "", listed |-> <<>>, cancelResults |-> <<>>]

Init ==
  /\ pc = "idle"
  /\ req = NoRequest
  /\ existingPosition = NoPosition
  /\ positionRead = "none"
  /\ smartSide = ""
  /\ orderData = NoOrder
  /\ subs = <<>>
  /\ calls = <<>>
  /\ res = <<>>
  /\ modes = <<>>
  /\ apiUrl = ""
  /\ tradingMode = "paper"
  /\ modeRes = NoModeResponse
  /\ modeCalls = 0
  /\ openOrders = <<>>
  /\ served = 0
  /\ route = ""
  /\ listed = <<>>
  /\ cancelResults = <<>>
  /\ parked = IdleCall
  /\ brokerPosition = NoPosition
  /\ validModes = <<>>

\* the request arrives: validation, then the account query is issued
Receive(r) ==
  /\ pc = "idle"
  /\ req' = Destructure(r)
  /\ IF MissingRequiredField(r)
     THEN /\ res' = Append(res, ValidationResponse)
          /\ pc' = "done"
          /\ UNCHANGED <<calls, modes>>
     ELSE /\ calls' = Append(calls, "getAccount")
          /\ modes' = Append(modes, tradingMode)
          /\ pc' = "await_account"
          /\ UNCHANGED res
  /\ UNCHANGED <<existingPosition, positionRead, smartSide, orderData, subs>>
  /\ UNCHANGED <<apiUrl, modeVars, bookVars>>
  /\ route' = "options"
  /\ UNCHANGED <<cancelVars, envVars>>

\* the account query returns or throws (caught and logged): the position
\* query is issued
AccountAnswer(ok) ==
  /\ pc = "await_account"
  /\ calls' = Append(calls, "getPositions")
  /\ modes' = Append(modes, tradingMode)
  /\ pc' = "await_positions"
  /\ UNCHANGED <<req, existingPosition, positionRead, smartSide, orderData, subs, res>>
  /\ UNCHANGED <<apiUrl, modeVars, bookVars>>
  /\ UNCHANGED <<route, cancelVars, envVars>>

\* the position query returns or throws: the side is resolved, the order
\* body is built and the SDK submission is issued
PositionsAnswer(ok, positions) ==
  /\ pc = "await_positions"
  /\ LET existing == IF ok THEN Find(positions, ToUpperCase(req.symbol)) ELSE NoPosition
         smart == IF ok THEN ResolveSide(req.side, existing) ELSE UnresolvedSide(req.side)
         order == OrderData(req, smart)
     IN  /\ existingPosition' = existing
         /\ positionRead' = IF ok THEN "ok" ELSE "failed"
         /\ smartSide' = smart
         /\ orderData' = order
         /\ subs' = Append(subs, Submission("sdk", order))
  /\ calls' = calls \o PlacementCalls(OrderData(req, smartSide'), openOrders)
  /\ modes' = [i \in DOMAIN calls' |-> IF i \in DOMAIN modes THEN modes[i] ELSE tradingMode]
  /\ openOrders' = KeepOpen(OrderData(req, smartSide'), openOrders)
  /\ pc' = "await_sdk"
  /\ UNCHANGED <<req, res, apiUrl, modeVars, served>>
  /\ brokerPosition' = IF ok THEN existingPosition' ELSE brokerPosition
  /\ UNCHANGED <<route, cancelVars, parked>>

\* the broker settles a submission that is in flight
BrokerAnswer(i, ans) ==
  /\ i \in DOMAIN subs
  /\ subs[i].outcome.kind = "pending"
  /\ subs[i].via = "sdk" => ans.parses
  /\ subs' = [subs EXCEPT ![i].outcome = ans]
  /\ openOrders' = IF ans.kind = "accepted" THEN Append(openOrders, subs[i].body)
                   ELSE openOrders
  /\ UNCHANGED <<pc, req, existingPosition, positionRead, smartSide, orderData, calls, res>>
  /\ UNCHANGED <<modes, apiUrl, modeVars, served>>
  /\ UNCHANGED <<route, cancelVars, envVars>>

\* after await alpaca.createOrder(orderData): respond, or in the catch issue
\* the direct POST
SdkContinue ==
  /\ pc = "await_sdk"
  /\ Settled(Current)
  /\ IF Current.outcome.kind = "accepted"
     THEN /\ res' = Append(res, PlacedResponse("alpaca_sdk", smartSide, req.side, existingPosition,
                                             Echo(Current.body)))
          /\ pc' = "done"
          /\ UNCHANGED <<subs, calls, modes, apiUrl>>
     ELSE /\ subs' = Append(subs, Submission("direct", orderData))
          /\ calls' = Append(calls, "POST /v2/orders")
          /\ apiUrl' = ApiUrl(tradingMode)
          /\ modes' = Append(modes, ModeOfUrl(ApiUrl(tradingMode)))
          /\ pc' = "await_direct"
          /\ UNCHANGED res
  /\ UNCHANGED <<req, existingPosition, positionRead, smartSide, orderData>>
  /\ UNCHANGED <<modeVars, bookVars>>
  /\ UNCHANGED <<route, cancelVars, envVars>>

\* a retryable rejection leaves the handler without a response (not what
\* the handler does)
AfterRejectionAbandoned(ans) ==
  IF RetryPlan(ErrorData(ans)) = "none" THEN "done" ELSE "hung"

\* where the handler goes after a rejected direct POST
AfterRejection(ans) ==
  IF RetryPlan(ErrorData(ans)) = "none" THEN "done" ELSE "delay"

\* after await fetch(...) and await response.text()
DirectContinue ==
  /\ pc = "await_direct"
  /\ Settled(Current)
  /\ LET ans == Current.outcome
     IN  CASE ans.kind = "accepted" ->
                /\ res' = Append(res,
                     IF ans.parses
                     THEN PlacedResponse("direct_api", smartSide, req.side,
                                         existingPosition, Echo(Current.body))
                     ELSE InvalidBodyResponse)
                /\ pc' = "done"
           [] ans.kind = "rejected" ->
                /\ pc' = AfterRejection(ans)
                /\ res' = IF AfterRejection(ans) = "done"
                          THEN Append(res, RejectionResponse(ans, orderData, smartSide,
                                                             req.side, existingPosition))
                          ELSE res
           [] OTHER ->
                /\ res' = Append(res, CaughtResponse)
                /\ pc' = "done"
  /\ UNCHANGED <<req, existingPosition, positionRead, smartSide, orderData, subs, calls>>
  /\ UNCHANGED <<modes, apiUrl, modeVars, bookVars>>
  /\ UNCHANGED <<route, cancelVars, envVars>>

\* the direct POST whose rejection is being handled
DirectAnswer == subs[2].outcome

\* the positions are read again before the resubmission and the side is
\* resolved anew (not what the handler does)
RetryAfterDelayRereading ==
  /\ pc = "delay"
  /\ existingPosition' = brokerPosition
  /\ smartSide' = ResolveSide(req.side, brokerPosition)
  /\ orderData' = OrderData(req, smartSide')
  /\ subs' = Append(subs, Submission("retry",
                RetryBody(RetryPlan(ErrorData(DirectAnswer)), orderData')))
  /\ calls' = calls \o <<"getPositions", "POST /v2/orders">>
  /\ modes' = modes \o <<tradingMode, ModeOfUrl(apiUrl)>>
  /\ pc' = "await_retry"
  /\ UNCHANGED <<req, positionRead, res>>
  /\ UNCHANGED <<apiUrl, modeVars, bookVars>>
  /\ UNCHANGED <<route, cancelVars, envVars>>

\* after the setTimeout delay the resubmission is issued
RetryAfterDelay ==
  /\ pc = "delay"
  /\ subs' = Append(subs, Submission("retry",
                RetryBody(RetryPlan(ErrorData(DirectAnswer)), orderData)))
  /\ calls' = Append(calls, "POST /v2/orders")
  /\ modes' = Append(modes, ModeOfUrl(apiUrl))
  /\ pc' = "await_retry"
  /\ UNCHANGED <<req, existingPosition, positionRead, smartSide, orderData, res>>
  /\ UNCHANGED <<apiUrl, modeVars, bookVars>>
  /\ UNCHANGED <<route, cancelVars, envVars>>

\* the rejection of the last submission is reported (not what the handler
\* does)
ReportedRejectionLast == Current.outcome

\* the rejection the failure response reports: response.status and errorData
\* of the direct POST
ReportedRejection == DirectAnswer

\* a failed resubmission resubmits again (not what the handler does)
AfterRetryAgain(ans) ==
  IF ans.kind = "rejected" /\ RetryPlan(ErrorData(ans)) # "none" THEN "delay" ELSE "done"

\* a thrown resubmission is swallowed and nothing is sent (not what the
\* handler does)
AfterRetrySwallowed(ans) == IF ans.kind = "threw" THEN "hung" ELSE "done"

\* where the handler goes after the resubmission: it returns the success
\* response or falls through to the rejection response
AfterRetry(ans) == "done"

\* after await fetch(...) of the resubmission: success if ok and the body
\* parses, else the rejection response of the direct POST
RetryContinue ==
  /\ pc = "await_retry"
  /\ Settled(Current)
  /\ LET ans == Current.outcome
     IN  /\ pc' = AfterRetry(ans)
         /\ res' = IF AfterRetry(ans) # "done" THEN res
                   ELSE Append(res,
                     IF ans.kind = "accepted" /\ ans.parses
                     THEN RetriedResponse(RetryPlan(ErrorData(DirectAnswer)), smartSide,
                                          req.side, Echo(Current.body))
                     ELSE RejectionResponse(ReportedRejection, orderData, smartSide,
                                            req.side, existingPosition))
  /\ UNCHANGED <<req, existingPosition, positionRead, smartSide, orderData, subs, calls>>
  /\ UNCHANGED <<modes, apiUrl, modeVars, bookVars>>
  /\ UNCHANGED <<route, cancelVars, envVars>>

----------------------------------------------------------------------------
(* The stock order handler: app.post("/api/orders") *)

StockSymbols == {"", "xyz", "abc", "XYZ240101C00100000", "xyz240101c00100000"}

StockSides == {"", "buy", "sell", "BUY", "sell_to_open"}

StockRequests ==
  [symbol : StockSymbols, side : StockSides, quantity : RequestQuantities,
   price : RequestPrices, orderType : OrderTypes]

\* no symbol is taken for an options symbol (not what the handler does)
IsOptionsSymbolNever(symbol) == FALSE

\* symbol.length > 10 && /^[A-Z]+\d{6}[CP]\d{8}$/.test(symbol)
IsOptionsSymbol(symbol) == symbol = "XYZ240101C00100000"

\* the request arrives: validation, then createOrder is issued
StockReceive(r) ==
  /\ pc = "idle"
  /\ req' = Destructure(r)
  /\ IF MissingRequiredField(r) \/ IsOptionsSymbol(r.symbol)
        \/ (r.side # "buy" /\ r.side # "sell")
     THEN /\ res' = Append(res,
                 IF MissingRequiredField(r) THEN ValidationResponse
                 ELSE IF IsOptionsSymbol(r.symbol) THEN OptionsSymbolResponse
                 ELSE InvalidSideResponse)
          /\ pc' = "done"
          /\ UNCHANGED <<orderData, subs, calls, modes, openOrders>>
     ELSE /\ orderData' = StockOrderData(req')
          /\ subs' = Append(subs, Submission("stock", orderData'))
          /\ calls' = calls \o PlacementCalls(orderData', openOrders)
          /\ modes' = [i \in DOMAIN calls' |-> tradingMode]
          /\ openOrders' = KeepOpen(orderData', openOrders)
          /\ pc' = "await_stock"
          /\ UNCHANGED res
  /\ UNCHANGED <<existingPosition, positionRead, smartSide, apiUrl, modeVars, served>>
  /\ route' = "stock"
  /\ UNCHANGED <<cancelVars, envVars>>

\* after await alpaca.createOrder(orderData): the response, or the catch
StockContinue ==
  /\ pc = "await_stock"
  /\ Settled(Current)
  /\ LET ans == Current.outcome
     IN  res' = Append(res,
           CASE ans.kind = "accepted" -> StockPlacedResponse(Echo(Current.body))
             [] ans.kind = "rejected" -> StockRejectionResponse(ans)
             [] OTHER -> StockCaughtResponse)
  /\ pc' = "done"
  /\ UNCHANGED <<req, existingPosition, positionRead, smartSide, orderData, subs, calls>>
  /\ UNCHANGED <<modes, apiUrl, modeVars, bookVars>>
  /\ UNCHANGED <<route, cancelVars, envVars>>

----------------------------------------------------------------------------
(* Cancel all orders: app.delete("/api/orders") *)

RECURSIVE Reverse(_)
Reverse(seq) == IF seq = <<>> THEN <<>> ELSE Append(Reverse(Tail(seq)), Head(seq))

\* getOrders({ status: "open", direction: "desc", ... }): the newest first
Listing(open) == Reverse(open)

\* the broker's open orders without the one that was cancelled
RECURSIVE Without(_, _)
Without(open, order) ==
  IF open = <<>> THEN <<>>
  ELSE IF Head(open) = order THEN Tail(open)
  ELSE <<Head(open)>> \o Without(Tail(open), order)

\* the entry pushed for the k-th listed order
CancelResult(k, order, ok) ==
  [order |-> k, symbol |-> order.symbol,
   status |-> IF ok THEN "cancelled" ELSE "failed_to_cancel"]

\* the loop ends at the first cancel that fails (not what the handler does)
MoreToCancelUnlessFailed(results, orders) ==
  /\ Len(results) < Len(orders)
  /\ results # <<>> => results[Len(results)].status = "cancelled"

\* for (const order of orders): the catch inside the loop lets it go on
MoreToCancel(results, orders) == Len(results) < Len(orders)

CancelledResponse(results) ==
  [BlankResponse EXCEPT
     !.status = 200,
     !.success = TRUE,
     !.keys = {"success", "message", "cancelled_orders"},
     !.cancelled = Len(SelectSeq(results, LAMBDA r : r.status = "cancelled")),
     !.cancelled_orders = results]

CancelFailedResponse ==
  [BlankResponse EXCEPT
     !.status = 500,
     !.keys = {"success", "error", "details"},
     !.error = <<"Failed to cancel orders">>]

\* the request arrives: the open orders are queried
DeleteReceive ==
  /\ pc = "idle"
  /\ route' = "delete"
  /\ calls' = Append(calls, "getOrders")
  /\ modes' = Append(modes, tradingMode)
  /\ pc' = "await_orders"
  /\ UNCHANGED <<req, existingPosition, positionRead, smartSide, orderData, subs, res>>
  /\ UNCHANGED <<apiUrl, modeVars, bookVars, cancelVars, envVars>>

\* getOrders returns or throws: the first cancel is issued, or the response
\* is sent
OrdersAnswer(ok) ==
  /\ pc = "await_orders"
  /\ IF ~ok
     THEN /\ res' = Append(res, CancelFailedResponse)
          /\ pc' = "done"
          /\ UNCHANGED <<calls, modes, listed>>
     ELSE /\ listed' = Listing(openOrders)
          /\ IF MoreToCancel(<<>>, listed')
             THEN /\ calls' = Append(calls, "cancelOrder")
                  /\ modes' = Append(modes, tradingMode)
                  /\ pc' = "await_cancel"
                  /\ UNCHANGED res
             ELSE /\ res' = Append(res, CancelledResponse(<<>>))
                  /\ pc' = "done"
                  /\ UNCHANGED <<calls, modes>>
  /\ UNCHANGED <<req, existingPosition, positionRead, smartSide, orderData, subs>>
  /\ UNCHANGED <<apiUrl, modeVars, bookVars, route, cancelResults, envVars>>

\* cancelOrder returns or throws: the result is pushed and the next cancel
\* is issued, or the response is sent
CancelAnswer(ok) ==
  /\ pc = "await_cancel"
  /\ LET k == Len(cancelResults) + 1
         results == Append(cancelResults, CancelResult(k, listed[k], ok))
     IN  /\ cancelResults' = results
         /\ openOrders' = IF ok THEN Without(openOrders, listed[k]) ELSE openOrders
         /\ IF MoreToCancel(results, listed)
            THEN /\ calls' = Append(calls, "cancelOrder")
                 /\ modes' = Append(modes, tradingMode)
                 /\ pc' = "await_cancel"
                 /\ UNCHANGED res
            ELSE /\ res' = Append(res, CancelledResponse(results))
                 /\ pc' = "done"
                 /\ UNCHANGED <<calls, modes>>
  /\ UNCHANGED <<req, existingPosition, positionRead, smartSide, orderData, subs>>
  /\ UNCHANGED <<apiUrl, modeVars, served, route, listed, envVars>>

\* the call has been answered and the next request is taken
NextCall ==
  /\ pc = "done"
  /\ served + 1 < MaxCalls
  /\ served' = served + 1
  /\ pc' = "idle"
  /\ req' = NoRequest
  /\ existingPosition' = NoPosition
  /\ positionRead' = "none"
  /\ smartSide' = ""
  /\ orderData' = NoOrder
  /\ subs' = <<>>
  /\ calls' = <<>>
  /\ res' = <<>>
  /\ modes' = <<>>
  /\ apiUrl' = ""
  /\ UNCHANGED <<modeVars, openOrders>>
  /\ route' = ""
  /\ listed' = <<>>
  /\ cancelResults' = <<>>
  /\ UNCHANGED envVars

\* the state of the call that is running: the handler's parameters and locals
ActiveCall ==
  [pc |-> pc, req |-> req, existingPosition |-> existingPosition,
   positionRead |-> positionRead, smartSide |-> smartSide, orderData |-> orderData,
   subs |-> subs, calls |-> calls, res |-> res, modes |-> modes, apiUrl |-> apiUrl,
   route |-> route, listed |-> listed, cancelResults |-> cancelResults]

\* smartSide is one variable of the module, shared by the calls (not what the
\* handler does)
SwitchSharedSide ==
  /\ parked' = ActiveCall
  /\ pc' = parked.pc
  /\ req' = parked.req
  /\ existingPosition' = parked.existingPosition
  /\ positionRead' = parked.positionRead
  /\ smartSide' = smartSide
  /\ orderData' = parked.orderData
  /\ subs' = parked.subs
  /\ calls' = parked.calls
  /\ res' = parked.res
  /\ modes' = parked.modes
  /\ apiUrl' = parked.apiUrl
  /\ route' = parked.route
  /\ listed' = parked.listed
  /\ cancelResults' = parked.cancelResults
  /\ UNCHANGED <<modeVars, bookVars, brokerPosition>>

\* the running call is suspended at its await and the event loop runs the
\* other call, whose parameters and locals are its own
Switch ==
  /\ parked' = ActiveCall
  /\ pc' = parked.pc
  /\ req' = parked.req
  /\ existingPosition' = parked.existingPosition
  /\ positionRead' = parked.positionRead
  /\ smartSide' = parked.smartSide
  /\ orderData' = parked.orderData
  /\ subs' = parked.subs
  /\ calls' = parked.calls
  /\ res' = parked.res
  /\ modes' = parked.modes
  /\ apiUrl' = parked.apiUrl
  /\ route' = parked.route
  /\ listed' = parked.listed
  /\ cancelResults' = parked.cancelResults
  /\ UNCHANGED <<modeVars, bookVars, brokerPosition>>

\* app.get("/api/trading-mode")
GetTradingMode ==
  /\ modeRes' = [method |-> "GET", status |-> 200, success |-> TRUE, mode |-> tradingMode]
  /\ UNCHANGED <<tradingMode, modeCalls, validModes>>
  /\ UNCHANGED <<pc, req, existingPosition, positionRead, smartSide, orderData,
                 subs, calls, res, modes, apiUrl, bookVars>>
  /\ UNCHANGED <<route, cancelVars, envVars>>

\* the mode is set without the test of its value (not what the handler does)
SetTradingModeUnchecked(mode) ==
  /\ modeCalls < MaxModeCalls
  /\ modeCalls' = modeCalls + 1
  /\ tradingMode' = mode
  /\ validModes' = Append(validModes, mode)
  /\ modeRes' = [method |-> "POST", status |-> 200, success |-> TRUE, mode |-> tradingMode']
  /\ UNCHANGED <<pc, req, existingPosition, positionRead, smartSide, orderData,
                 subs, calls, res, modes, apiUrl, bookVars>>
  /\ UNCHANGED <<route, cancelVars, envVars>>

\* app.post("/api/trading-mode")
SetTradingMode(mode) ==
  /\ modeCalls < MaxModeCalls
  /\ modeCalls' = modeCalls + 1
  /\ IF mode # "paper" /\ mode # "live"
     THEN /\ modeRes' = [method |-> "POST", status |-> 400, success |-> FALSE, mode |-> ""]
          /\ UNCHANGED <<tradingMode, validModes>>
     ELSE /\ tradingMode' = mode
          /\ validModes' = Append(validModes, mode)
          /\ modeRes' = [method |-> "POST", status |-> 200, success |-> TRUE, mode |-> tradingMode']
  /\ UNCHANGED <<pc, req, existingPosition, positionRead, smartSide, orderData,
                 subs, calls, res, modes, apiUrl, bookVars>>
  /\ UNCHANGED <<route, cancelVars, envVars>>

Next ==
  \/ \E r \in Requests : Receive(r)
  \/ \E ok \in BOOLEAN : AccountAnswer(ok)
  \/ \E ok \in BOOLEAN, positions \in PositionLists : PositionsAnswer(ok, positions)
  \/ \E i \in DOMAIN subs, ans \in Answers : BrokerAnswer(i, ans)
  \/ SdkContinue
  \/ DirectContinue
  \/ RetryAfterDelay
  \/ RetryContinue
  \/ \E r \in StockRequests : StockReceive(r)
  \/ StockContinue

Spec == Init /\ [][Next]_vars

\* every step but the arrival of the request: the answers of the remote calls
\* and the continuations of the handler
Progress ==
  \/ \E ok \in BOOLEAN : AccountAnswer(ok)
  \/ \E ok \in BOOLEAN, positions \in PositionLists : PositionsAnswer(ok, positions)
  \/ \E i \in DOMAIN subs, ans \in Answers : BrokerAnswer(i, ans)
  \/ SdkContinue
  \/ DirectContinue
  \/ RetryAfterDelay
  \/ RetryContinue
  \/ StockContinue

\* every remote call eventually returns or fails, the timer fires and the
\* event loop runs the continuation that is ready
LiveSpec == Init /\ [][Next]_vars /\ WF_vars(Progress)

\* a placement call with the trading-mode endpoint called while it runs
ModeRequests ==
  { r \in Requests :
      /\ r.symbol = "xyz"
      /\ r.side \in {"", "buy", "sell_to_close"}
      /\ r.quantity = 10
      /\ r.price = 1446
      /\ r.orderType = "limit" }

ModeAnswers ==
  { a \in Answers :
      /\ a.parses
      /\ a.message \in {<<>>, <<"not authorized">>, <<WashTrade>>}
      /\ a.error = <<>> }

NextMode ==
  \/ \E r \in ModeRequests : Receive(r)
  \/ \E ok \in BOOLEAN : AccountAnswer(ok)
  \/ \E ok \in BOOLEAN : PositionsAnswer(ok, <<>>)
  \/ \E i \in DOMAIN subs, ans \in ModeAnswers : BrokerAnswer(i, ans)
  \/ SdkContinue
  \/ DirectContinue
  \/ RetryAfterDelay
  \/ RetryContinue
  \/ \E mode \in ModeInputs : SetTradingMode(mode)
  \/ GetTradingMode

ModeSpec == Init /\ [][NextMode]_vars

\* placement calls served one after the other against the broker's open orders
BookOptionsRequests ==
  { r \in Requests :
      /\ r.symbol = "xyz"
      /\ r.side \in {"buy", "sell"}
      /\ r.quantity = 10
      /\ r.price = 1446
      /\ r.orderType = "limit" }

BookStockRequests ==
  { r \in StockRequests :
      /\ r.symbol \in {"xyz", "abc"}
      /\ r.side \in {"buy", "sell"}
      /\ r.quantity = 10
      /\ r.price = 1446
      /\ r.orderType = "limit" }

BookAnswers ==
  { a \in Answers :
      /\ a.parses
      /\ a.message \in {<<>>, <<WashTrade>>}
      /\ a.error = <<>>
      /\ a.reject_reason = <<>>
      /\ a.kind # "threw"
      /\ a.status # 500 }

NextBook ==
  \/ \E r \in BookOptionsRequests : Receive(r)
  \/ \E r \in BookStockRequests : StockReceive(r)
  \/ AccountAnswer(TRUE)
  \/ PositionsAnswer(TRUE, <<>>)
  \/ \E i \in DOMAIN subs, ans \in BookAnswers : BrokerAnswer(i, ans)
  \/ SdkContinue
  \/ DirectContinue
  \/ RetryAfterDelay
  \/ RetryContinue
  \/ StockContinue
  \/ NextCall

BookSpec == Init /\ [][NextBook]_vars

\* stock orders are placed and then all open orders are cancelled
NextCancel ==
  \/ \E r \in BookStockRequests : StockReceive(r)
  \/ \E i \in DOMAIN subs, ans \in BookAnswers : BrokerAnswer(i, ans)
  \/ StockContinue
  \/ NextCall
  \/ DeleteReceive
  \/ \E ok \in BOOLEAN : OrdersAnswer(ok)
  \/ \E ok \in BOOLEAN : CancelAnswer(ok)

CancelSpec == Init /\ [][NextCancel]_vars

\* two placement calls handled concurrently: the event loop interleaves
\* their steps at the awaits
ConcPositionLists ==
  { <<>>,
    <<[symbol |-> "XYZ", qty |-> "1", side |-> "long"]>>,
    <<[symbol |-> "XYZ", qty |-> "-1", side |-> "short"]>> }

NextConc ==
  \/ \E r \in BookOptionsRequests : Receive(r)
  \/ \E ok \in BOOLEAN : AccountAnswer(ok)
  \/ \E ok \in BOOLEAN, positions \in ConcPositionLists : PositionsAnswer(ok, positions)
  \/ \E i \in DOMAIN subs, ans \in BookAnswers : BrokerAnswer(i, ans)
  \/ SdkContinue
  \/ DirectContinue
  \/ RetryAfterDelay
  \/ RetryContinue
  \/ Switch

ConcSpec == Init /\ [][NextConc]_vars

\* a placement call while the broker's position in the symbol changes
RacePositions ==
  { NoPosition,
    [symbol |-> "XYZ", qty |-> "1", side |-> "long"],
    [symbol |-> "XYZ", qty |-> "-1", side |-> "short"] }

\* what getPositions returns for the position the broker holds
PositionsOf(position) == IF position = NoPosition THEN <<>> ELSE <<position>>

\* a fill of another order changes the broker's position
Fill(position) ==
  /\ position # brokerPosition
  /\ brokerPosition' = position
  /\ UNCHANGED <<pc, req, existingPosition, positionRead, smartSide, orderData,
                 subs, calls, res, modes, apiUrl, modeVars, bookVars>>
  /\ UNCHANGED <<route, cancelVars, parked>>

NextRace ==
  \/ \E r \in BookOptionsRequests : Receive(r)
  \/ \E ok \in BOOLEAN : AccountAnswer(ok)
  \/ \E ok \in BOOLEAN : PositionsAnswer(ok, PositionsOf(brokerPosition))
  \/ \E i \in DOMAIN subs, ans \in BookAnswers : BrokerAnswer(i, ans)
  \/ SdkContinue
  \/ DirectContinue
  \/ RetryAfterDelay
  \/ RetryContinue
  \/ \E position \in RacePositions : Fill(position)

RaceSpec == Init /\ [][NextRace]_vars

----------------------------------------------------------------------------
(* Properties of the retry controller *)

Done == pc = "done"

\* the call is one to POST /api/options/orders
OptionsCall == calls # <<>> /\ calls[1] = "getAccount"

RejectedWith(sub, phrase) ==
  sub.outcome.kind = "rejected" /\ Includes(sub.outcome.message, phrase)

Succeeded(method) ==
  Len(res) = 1 /\ res[1].success /\ res[1].status = 200 /\ res[1].method = method

\* C1 as stated: one call issues at most two order submissions, the SDK
\* createOrder call, the direct POST and the retry POST counted alike.
C1_AtMostTwoSubmissions == OptionsCall => Len(subs) <= 2

\* C1 amended: one call issues at most three order submissions, in this
\* order and at most one of each: the SDK createOrder call, the direct POST
\* and one retry POST, however often the broker answers with a retryable
\* rejection.
C1_AtMostThreeSubmissions ==
  /\ Len(subs) <= 3
  /\ OptionsCall => \A i \in DOMAIN subs : subs[i].via = <<"sdk", "direct", "retry">>[i]

\* the retryable rejection recurs on the retry and the call ends
C1_Witness ==
  /\ Done
  /\ Len(subs) = 3
  /\ RejectedWith(subs[2], WashTrade)
  /\ RejectedWith(subs[3], WashTrade)

\* C2 as stated: when the first submission attempt is rejected with a
\* message containing neither retryable phrase, no second submission is
\* issued in the call.
C2_FatalFirstAttemptNotResubmitted ==
  ( /\ Len(subs) >= 1
    /\ subs[1].outcome.kind = "rejected"
    /\ ~Includes(subs[1].outcome.message, WashTrade)
    /\ ~Includes(subs[1].outcome.message, ShortSell)
    /\ Done )
  => Len(subs) = 1

\* C2 amended: when the direct POST (the attempt that follows a failed SDK
\* attempt) is rejected with a message containing neither retryable phrase,
\* no further submission is issued in the call and that rejection is
\* surfaced: the response is a failure with the broker's status and payload.
C2_FatalDirectRejectionNotRetried ==
  ( /\ Len(subs) >= 2
    /\ subs[2].outcome.kind = "rejected"
    /\ ~Includes(subs[2].outcome.message, WashTrade)
    /\ ~Includes(subs[2].outcome.message, ShortSell) )
  => /\ Len(subs) = 2
     /\ pc \in {"await_direct", "done"}
     /\ Done => /\ Len(res) = 1
                /\ ~res[1].success
                /\ res[1].status = subs[2].outcome.status
                /\ res[1].details.message = subs[2].outcome.message

\* an authorization rejection of the direct POST ends the call
C2_Witness ==
  /\ Done
  /\ Len(subs) = 2
  /\ subs[2].outcome.kind = "rejected"
  /\ subs[2].outcome.message = <<"not authorized">>
  /\ Len(res) = 1 /\ res[1].status = 403

C4_WashTradeRejectionRetried ==
  Done =>
    \A i \in DOMAIN subs :
      ( /\ RejectedWith(subs[i], WashTrade)
        /\ \A j \in 1..(i - 1) : ~RejectedWith(subs[j], WashTrade) )
      => /\ Len(subs) = i + 1
         /\ subs[i + 1].body = subs[i].body
         /\ subs[i + 1].outcome.kind = "accepted" => Succeeded("retry_after_wash_trade")

\* C4 amended: when the direct POST is rejected with a message that contains
\* the wash-trade phrase and not the short-sell phrase, exactly one retry is
\* issued, its body is identical to the rejected body, and if the retry is
\* answered ok with a body that parses the call succeeds with method
\* retry_after_wash_trade.
C4_DirectWashTradeRejectionRetried ==
  ( /\ Done
    /\ Len(subs) >= 2
    /\ RejectedWith(subs[2], WashTrade)
    /\ ~Includes(subs[2].outcome.message, ShortSell) )
  => /\ Len(subs) = 3
     /\ subs[3].via = "retry"
     /\ subs[3].body = subs[2].body
     /\ (subs[3].outcome.kind = "accepted" /\ subs[3].outcome.parses)
          => Succeeded("retry_after_wash_trade")

\* the retry after a wash-trade rejection is accepted
C4_Witness ==
  /\ Done
  /\ Len(subs) = 3
  /\ RejectedWith(subs[2], WashTrade)
  /\ subs[3].outcome.kind = "accepted"
  /\ Succeeded("retry_after_wash_trade")

\* C5: when a submission is rejected with a message containing the
\* short-sell phrase, one retry is issued whose body is the original order
\* with order_class = simple, and the call succeeds if that retry is accepted.
C5_ShortSellRejectionRetried ==
  ( /\ Done
    /\ Len(subs) >= 2
    /\ RejectedWith(subs[2], ShortSell) )
  => /\ Len(subs) = 3
     /\ subs[3].body = [orderData EXCEPT !.order_class = "simple"]
     /\ subs[3].outcome.kind = "accepted" => (Len(res) = 1 /\ res[1].success)

----------------------------------------------------------------------------
(* Properties of the side resolution *)

Numeric(position) == ~ParseFloat(position.qty).nan

Quantity(position) == ParseFloat(position.qty).val

\* C6: when the position query fails the call goes on and the side is
\* resolved as for a flat position: buy gives buy_to_open and wire side buy,
\* sell gives sell_to_open and wire side sell.
C6_FailedLookupResolvedAsFlat ==
  positionRead = "failed" =>
    /\ Len(subs) >= 1
    /\ req.side = "buy" => (smartSide = "buy_to_open" /\ orderData.side = "buy")
    /\ req.side = "sell" => (smartSide = "sell_to_open" /\ orderData.side = "sell")

\* C7: the resolver table: sell resolves to sell_to_close on a quantity > 0
\* and to sell_to_open on a quantity <= 0 or no position; buy resolves to
\* buy_to_close on a quantity < 0 and to buy_to_open on a quantity >= 0 or no
\* position.
C7_ResolverTable ==
  (positionRead = "ok" /\ (existingPosition = NoPosition \/ Numeric(existingPosition))) =>
    /\ req.side = "sell" =>
         smartSide = IF existingPosition # NoPosition /\ Quantity(existingPosition) > 0
                     THEN "sell_to_close" ELSE "sell_to_open"
    /\ req.side = "buy" =>
         smartSide = IF existingPosition # NoPosition /\ Quantity(existingPosition) < 0
                     THEN "buy_to_close" ELSE "buy_to_open"

\* a sell against a flat position record (quantity 0) opens
C7_Witness ==
  /\ positionRead = "ok"
  /\ req.side = "sell"
  /\ existingPosition # NoPosition
  /\ existingPosition.qty = "0"
  /\ smartSide = "sell_to_open"

\* C8: for request side buy or sell and every position state (none, or a
\* numeric quantity) the resolution yields one of the four qualified sides
\* and the call goes on to submit the order.
C8_ResolverTotal ==
  ( /\ positionRead = "ok"
    /\ req.side \in {"buy", "sell"}
    /\ (existingPosition = NoPosition \/ Numeric(existingPosition)) )
  => /\ smartSide \in QualifiedSides
     /\ Len(subs) >= 1
     /\ subs[1].via = "sdk"

\* a buy against a position record of quantity 0
C8_Witness ==
  /\ positionRead = "ok"
  /\ req.side = "buy"
  /\ existingPosition # NoPosition
  /\ existingPosition.qty = "0"
  /\ smartSide = "buy_to_open"

\* C9: a request whose side is already qualified is resolved to that side
\* whatever the position is, and smart_side of the response is that side.
C9_QualifiedSidePassesThrough ==
  (req.side \in QualifiedSides /\ positionRead # "none") =>
    /\ smartSide = req.side
    /\ \A i \in DOMAIN res :
         (res[i].success \/ "debug_info" \in res[i].keys) => res[i].smart_side = req.side

\* sell_to_open against a long position is answered with smart_side sell_to_open
C9_Witness ==
  /\ req.side = "sell_to_open"
  /\ positionRead = "ok"
  /\ existingPosition # NoPosition
  /\ existingPosition.qty = "1"
  /\ Len(res) = 1
  /\ res[1].success
  /\ res[1].smart_side = "sell_to_open"

\* C10: every submitted order body (SDK attempt, direct POST, retry) has
\* wire side buy when the resolved side is buy_to_open or buy_to_close and
\* sell when it is sell_to_open or sell_to_close, and always one of the two.
C10_WireSide ==
  \A i \in DOMAIN subs :
    /\ subs[i].body.side \in {"buy", "sell"}
    /\ smartSide \in {"buy_to_open", "buy_to_close"} => subs[i].body.side = "buy"
    /\ smartSide \in {"sell_to_open", "sell_to_close"} => subs[i].body.side = "sell"

\* a retry of a buy_to_close order
C10_Witness ==
  /\ Len(subs) = 3
  /\ smartSide = "buy_to_close"
  /\ subs[3].body.side = "buy"

----------------------------------------------------------------------------
(* Properties of validation and of the order body *)

OrderSides == {"buy", "sell", "BUY", "Sell"} \cup QualifiedSides

\* C11: a request in which symbol, side, quantity or price is missing or
\* malformed is answered with a validation error, and no remote call (account
\* read, position read, order submission) is made for it.
C11_InvalidRequestMakesNoRemoteCall ==
  ( /\ pc # "idle"
    /\ Len(subs) >= 1 => subs[1].via = "sdk"
    /\ \/ req.symbol = ""
       \/ req.side \notin OrderSides
       \/ req.quantity = 0
       \/ req.price = 0 )
  => /\ calls = <<>>
     /\ subs = <<>>
     /\ Len(res) = 1
     /\ res[1].status = 400
     /\ ~res[1].success

----------------------------------------------------------------------------
(* Properties of the responses *)

ReadPositionInfo ==
  IF existingPosition # NoPosition
  THEN [qty |-> existingPosition.qty, side |-> existingPosition.side]
  ELSE NoPositionInfo

\* C13: every success response, whichever attempt was accepted, contains
\* order, smart_side, original_side and position_info, and position_info is
\* the {qty, side} of the position read in the call, or null.
C13_SuccessResponseShape ==
  \A i \in DOMAIN res :
    (OptionsCall /\ res[i].success) =>
      /\ {"order", "smart_side", "original_side", "position_info"} \subseteq res[i].keys
      /\ res[i].smart_side = smartSide
      /\ res[i].original_side = req.side
      /\ res[i].position_info = ReadPositionInfo

RichFailure(r) ==
  /\ ~r.success
  /\ {"suggestions", "debug_info", "details"} \subseteq r.keys
  /\ r.suggestions # <<>>
  /\ r.order_data = orderData
  /\ r.smart_side = smartSide
  /\ r.original_side = req.side
  /\ r.position_info = ReadPositionInfo

\* C14 as stated: every failure response of a call that got past validation
\* (broker rejection or transport error) has success = false, a non-empty
\* suggestions list, a debug_info object and details.
C14_EveryFailureResponseIsRich ==
  \A i \in DOMAIN res :
    (OptionsCall /\ ~res[i].success) => RichFailure(res[i])

\* C14 amended: every failure response for a rejected direct POST (HTTP not
\* ok), with or without a retry, has success = false, a non-empty suggestions
\* list, debug_info with order_data, smart_side, original_side and
\* existing_position, and details holding the broker's payload.
C14_RejectionResponseIsRich ==
  ( /\ Done
    /\ Len(subs) >= 2
    /\ subs[2].outcome.kind = "rejected"
    /\ Len(res) = 1
    /\ ~res[1].success )
  => /\ RichFailure(res[1])
     /\ res[1].details.message = subs[2].outcome.message

\* a direct POST rejected as not authorized
C14_Witness ==
  /\ Done
  /\ Len(subs) = 2
  /\ subs[2].outcome.message = <<"not authorized">>
  /\ Len(res) = 1
  /\ Len(res[1].suggestions) = 4
  /\ "debug_info" \in res[1].keys

RetryFailed ==
  /\ Done
  /\ Len(subs) = 3
  /\ ~(subs[3].outcome.kind = "accepted" /\ subs[3].outcome.parses)

\* C15 as stated: when the retry is rejected too, the response returns the
\* final rejection and marks which attempt produced it.
C15_FinalRejectionTagged ==
  (RetryFailed /\ subs[3].outcome.kind = "rejected") =>
    /\ Len(res) = 1
    /\ res[1].status = subs[3].outcome.status
    /\ res[1].details.message = subs[3].outcome.message
    /\ \E k \in {"attempt", "method"} : k \in res[1].keys

\* C15 amended: when the retry is unsuccessful too, the response is the
\* rejection of the direct POST (its status and payload) with the error text
\* "Wash trade detection triggered: ..."; the outcome of the retry is not
\* reported and no field marks the attempt.
C15_FirstRejectionReported ==
  RetryFailed =>
    /\ Len(res) = 1
    /\ ~res[1].success
    /\ res[1].status = subs[2].outcome.status
    /\ res[1].details.message = subs[2].outcome.message
    /\ Head(res[1].error) = "Wash trade detection triggered: "
    /\ res[1].keys = {"success", "error", "details", "debug_info", "suggestions"}

\* the retry is rejected for another reason than the direct POST
C15_Witness ==
  /\ RetryFailed
  /\ subs[3].outcome.kind = "rejected"
  /\ subs[3].outcome.message = <<"not authorized">>
  /\ Len(res) = 1
  /\ res[1].details.message = <<WashTrade>>

RoundedToCents(price, cents) == (10 * cents - price) \in -4..5

\* C17 as stated: on every acceptance path the qty and limit_price of the
\* success response equal the request's quantity and its price rounded to two
\* decimals (the broker echoes what it was sent).
C17_EchoMatchesRequest ==
  \A i \in DOMAIN res :
    res[i].success =>
      /\ res[i].order.qty = req.quantity
      /\ res[i].order.has_limit_price
      /\ RoundedToCents(req.price, res[i].order.limit_price)

\* C17 amended: for an accepted limit order whose request quantity is a
\* whole number, on every acceptance path, the qty and limit_price of the
\* success response equal the request's quantity and its price rounded to two
\* decimals (the broker echoes what it was sent).
C17_LimitEchoMatchesRequest ==
  \A i \in DOMAIN res :
    (res[i].success /\ req.orderType = "limit" /\ req.quantity % 10 = 0) =>
      /\ res[i].order.qty = req.quantity
      /\ res[i].order.has_limit_price
      /\ RoundedToCents(req.price, res[i].order.limit_price)

\* a limit order accepted on the retry: 1.446 is reported as 1.45
C17_Witness ==
  /\ Len(subs) = 3
  /\ Len(res) = 1
  /\ res[1].success
  /\ req.orderType = "limit"
  /\ req.quantity = 10
  /\ req.price = 1446
  /\ res[1].order.limit_price = 145

----------------------------------------------------------------------------
(* Termination *)

\* C16: when every remote call eventually returns or fails, every placement
\* call eventually sends its response.
C16_EventuallyResponds == (pc # "idle") ~> (pc = "done" /\ Len(res) = 1)

\* the call ends after a retry that threw
C16_Witness ==
  /\ pc = "done"
  /\ Len(res) = 1
  /\ Len(subs) = 3
  /\ subs[3].outcome.kind = "threw"

----------------------------------------------------------------------------
(* Trading mode *)

\* C12: a trading-mode switch while a placement call is in flight does not
\* affect the call: all its remote calls and the trading mode it reports use
\* the mode that was current when the call started.
C12_ModeFixedDuringCall ==
  /\ \A i \in DOMAIN modes : modes[i] = modes[1]
  /\ \A i \in DOMAIN res : res[i].trading_mode # "" => res[i].trading_mode = modes[1]

----------------------------------------------------------------------------
(* Existing orders *)

\* C19: placing an order through POST /api/orders or POST /api/options/orders
\* never cancels an existing order: no step issues a cancel call and every
\* open order stays open, so a buy and a later sell for the same symbol are
\* both open.
C19_PlacementCancelsNothing ==
  [][ /\ \A i \in DOMAIN calls' : calls'[i] # "cancelOrder"
      /\ Len(openOrders') >= Len(openOrders)
      /\ \A i \in DOMAIN openOrders : openOrders'[i] = openOrders[i] ]_vars

\* a buy order and a later sell order for the same symbol are both open
C19_Witness ==
  \E i, j \in DOMAIN openOrders :
    /\ i < j
    /\ openOrders[i].symbol = "XYZ" /\ openOrders[i].side = "buy"
    /\ openOrders[j].symbol = "XYZ" /\ openOrders[j].side = "sell"
    /\ Done

\* C20: when a stock order is placed through POST /api/orders the open orders
\* for the same symbol on the same side are cancelled, and only those.
C20_StockPlacementCancelsSameSide ==
  [][ (pc = "idle" /\ pc' = "await_stock") =>
        LET placed == orderData'
        IN  openOrders' = SelectSeq(openOrders,
              LAMBDA o : ~(o.symbol = placed.symbol /\ o.side = placed.side)) ]_vars

----------------------------------------------------------------------------
(* Concurrent calls *)

\* the smart side, the order bodies and the responses of a call are those
\* its own request and its own position read give
OwnResult(c) ==
  /\ c.positionRead = "ok" => c.smartSide = ResolveSide(c.req.side, c.existingPosition)
  /\ c.positionRead = "failed" =>
       (c.smartSide = c.req.side /\ c.existingPosition = NoPosition)
  /\ \A i \in DOMAIN c.subs : c.subs[i].body = OrderData(c.req, c.smartSide)
  /\ \A i \in DOMAIN c.res :
       /\ c.res[i].success =>
            /\ c.res[i].smart_side = c.smartSide
            /\ c.res[i].original_side = c.req.side
            /\ c.res[i].order = Echo(OrderData(c.req, c.smartSide))
       /\ "position_info" \in c.res[i].keys =>
            c.res[i].position_info =
              IF c.existingPosition # NoPosition THEN PositionInfo(c.existingPosition)
              ELSE NoPositionInfo
       /\ "debug_info" \in c.res[i].keys =>
            /\ c.res[i].order_data = OrderData(c.req, c.smartSide)
            /\ c.res[i].smart_side = c.smartSide
            /\ c.res[i].original_side = c.req.side

\* C21: two placement calls handled concurrently do not interfere through
\* local state: under every interleaving of their remote calls the smart
\* side, the order body and the response of each call are determined by its
\* own request and its own position read.
C21_CallsDoNotInterfere == OwnResult(ActiveCall) /\ OwnResult(parked)

\* a buy against a short position and a sell without a position, both
\* answered after a retry
C21_Witness ==
  /\ pc = "done" /\ parked.pc = "done"
  /\ req.side = "buy" /\ parked.req.side = "sell"
  /\ existingPosition # NoPosition /\ parked.existingPosition = NoPosition
  /\ Len(subs) = 3 /\ Len(parked.subs) = 3
  /\ Len(res) = 1 /\ res[1].smart_side = "buy_to_close"
  /\ Len(parked.res) = 1 /\ parked.res[1].smart_side = "sell_to_open"

----------------------------------------------------------------------------
(* Direction and outcome *)

\* C22: direction is preserved: in a call whose request side is buy,
\* buy_to_open or buy_to_close no submission carries wire side sell, and in a
\* call whose request side is sell, sell_to_open or sell_to_close no
\* submission carries wire side buy, on every path including a failed
\* position lookup.
C22_DirectionPreserved ==
  route = "options" =>
    \A i \in DOMAIN subs :
      /\ req.side \in {"buy", "buy_to_open", "buy_to_close"} => subs[i].body.side # "sell"
      /\ req.side \in {"sell", "sell_to_open", "sell_to_close"} => subs[i].body.side # "buy"

\* C23: a placement call answers success = false only if no submission of
\* the call was accepted by the broker: an order the broker accepted (HTTP ok
\* on the direct attempt or on the retry) is never reported as a failure.
C23_AcceptedNeverReportedAsFailure ==
  route = "options" =>
    \A i \in DOMAIN res :
      ~res[i].success => \A j \in DOMAIN subs : subs[j].outcome.kind # "accepted"

----------------------------------------------------------------------------
(* The position read *)

PositionReads == { i \in DOMAIN calls : calls[i] = "getPositions" }

\* C24: the side of a call is resolved from the single position read made in
\* the call: no second position read is made, and when the position changes
\* after the read the first attempt and every later one still carry the side
\* resolved from that read, which is the smart_side of the response.
C24_SideFromSingleRead ==
  /\ Cardinality(PositionReads) <= 1
  /\ positionRead = "ok" => smartSide = ResolveSide(req.side, existingPosition)
  /\ \A i \in DOMAIN subs : subs[i].body.side = WireSide(smartSide)
  /\ \A i \in DOMAIN subs : subs[i].body = subs[1].body
  /\ \A i \in DOMAIN res : res[i].success => res[i].smart_side = smartSide

\* a buy read against a short position; the position is closed by a fill
\* before the retry, which is accepted as buy_to_close
C24_Witness ==
  /\ Done
  /\ positionRead = "ok"
  /\ req.side = "buy"
  /\ existingPosition.qty = "-1"
  /\ brokerPosition = NoPosition
  /\ Len(subs) = 3
  /\ Len(res) = 1 /\ res[1].success /\ res[1].smart_side = "buy_to_close"

----------------------------------------------------------------------------
(* Order of the steps *)

RemoteCallOrder ==
  <<"getAccount", "getPositions", "createOrder", "POST /v2/orders", "POST /v2/orders">>

\* C25: in every placement call the steps occur in the order validation,
\* position read, side resolution, order submission, optional retry,
\* response: nothing is called for a request that fails validation, the
\* position read has completed (with a result or a failure) before the side
\* is resolved and the first submission is issued, and the response is sent
\* after the outcome of the last submission is known.
C25_StepsInOrder ==
  route = "options" =>
    /\ Len(calls) <= Len(RemoteCallOrder)
    /\ \A i \in DOMAIN calls : calls[i] = RemoteCallOrder[i]
    /\ Len(subs) = IF Len(calls) <= 2 THEN 0 ELSE Len(calls) - 2
    /\ positionRead = "none" => (smartSide = "" /\ subs = <<>>)
    /\ positionRead # "none" => (Len(calls) >= 3 /\ smartSide # "")
    /\ res # <<>> =>
         /\ Done
         /\ \A i \in DOMAIN subs : subs[i].outcome.kind # "pending"
         /\ calls = <<>> => res[1].status = 400

\* a call that went through every step: the position read failed, the SDK
\* attempt and the direct POST were refused and the retry was answered
C25_Witness ==
  /\ route = "options"
  /\ Done
  /\ calls = RemoteCallOrder
  /\ positionRead = "failed"
  /\ Len(subs) = 3
  /\ subs[3].outcome.kind = "rejected"
  /\ Len(res) = 1

----------------------------------------------------------------------------
(* Error text *)

\* C26: for a broker rejection of an options order the error text of the
\* failure response is the broker's message if present, else its
\* reject_reason, else its error field, else a default text, and the HTTP
\* status of the response is the status the broker returned.
C26_RejectionErrorText ==
  ( /\ route = "options"
    /\ Done
    /\ Len(subs) >= 2
    /\ subs[2].outcome.kind = "rejected"
    /\ Len(res) = 1
    /\ ~res[1].success )
  => LET payload == ErrorData(subs[2].outcome)
     IN  /\ res[1].status = subs[2].outcome.status
         /\ res[1].error # <<>>
         /\ payload.message # <<>> => res[1].error = payload.message
         /\ (payload.message = <<>> /\ payload.reject_reason # <<>>)
              => res[1].error = payload.reject_reason
         /\ (payload.message = <<>> /\ payload.reject_reason = <<>> /\ payload.error # <<>>)
              => res[1].error = payload.error

----------------------------------------------------------------------------
(* One response *)

\* the handler is suspended at an await
Awaiting ==
  pc \in {"await_account", "await_positions", "await_sdk", "await_direct",
          "delay", "await_retry"}

\* C27: every call to POST /api/options/orders sends exactly one HTTP
\* response on every path (validation failure, accepted first attempt,
\* accepted fallback, accepted retry, failed retry, unparsable broker body,
\* thrown transport error): none while the handler is at an await, one when
\* it has returned, never two.
C27_ExactlyOneResponse ==
  route = "options" =>
    /\ Len(res) <= 1
    /\ Awaiting => res = <<>>
    /\ ~Awaiting => Len(res) = 1

\* the direct POST threw and the outer catch answered
C27_Witness ==
  /\ route = "options"
  /\ Done
  /\ Len(subs) = 2
  /\ subs[2].outcome.kind = "threw"
  /\ Len(res) = 1
  /\ res[1].status = 500

----------------------------------------------------------------------------
(* The trading-mode endpoint *)

\* the mode of the most recent valid POST, or the initial mode
ExpectedMode == IF validModes = <<>> THEN "paper" ELSE validModes[Len(validModes)]

\* C28: the process-wide trading mode is always paper or live and starts as
\* paper; a POST /api/trading-mode with another value answers 400 and leaves
\* the mode unchanged, and a GET /api/trading-mode returns the mode of the
\* most recent valid POST.
C28_TradingModeEndpoint ==
  /\ tradingMode \in {"paper", "live"}
  /\ tradingMode = ExpectedMode
  /\ \A i \in DOMAIN validModes : validModes[i] \in {"paper", "live"}
  /\ modeRes.method = "POST" =>
       \/ modeRes.status = 400 /\ ~modeRes.success
       \/ modeRes.status = 200 /\ modeRes.success /\ modeRes.mode = ExpectedMode
  /\ (modeRes.method = "POST" /\ modeRes.status = 400) => Len(validModes) < modeCalls
  /\ (modeRes.method = "POST" /\ Len(validModes) = modeCalls) => modeRes.status = 200
  /\ modeRes.method = "GET" =>
       (modeRes.status = 200 /\ modeRes.success /\ modeRes.mode = ExpectedMode)

\* the mode was set to live and back to paper, and a GET returns paper
C28_Witness ==
  /\ validModes = <<"live", "paper">>
  /\ modeRes.method = "GET"
  /\ modeRes.mode = "paper"

----------------------------------------------------------------------------
(* Cancel all orders *)

CancelCalls == { i \in DOMAIN calls : calls[i] = "cancelOrder" }

\* C29: DELETE /api/orders attempts exactly one cancel for every open order
\* the broker listed, in listing order; a failed cancel does not stop the
\* attempts on the remaining orders, the response is success = true with one
\* entry per listed order marked cancelled or failed_to_cancel, and the count
\* in the message is the number of cancelled entries.
C29_CancelAll ==
  route = "delete" =>
    /\ Len(cancelResults) <= Len(listed)
    /\ Cardinality(CancelCalls) = Len(cancelResults) + (IF pc = "await_cancel" THEN 1 ELSE 0)
    /\ \A k \in DOMAIN cancelResults :
         /\ cancelResults[k].order = k
         /\ cancelResults[k].symbol = listed[k].symbol
         /\ cancelResults[k].status \in {"cancelled", "failed_to_cancel"}
    /\ Done =>
         /\ Len(res) = 1
         /\ \/ res[1].status = 500 /\ calls = <<"getOrders">> /\ listed = <<>>
            \/ /\ res[1].success
               /\ res[1].status = 200
               /\ Len(cancelResults) = Len(listed)
               /\ res[1].cancelled_orders = cancelResults
               /\ res[1].cancelled =
                    Cardinality({ k \in DOMAIN cancelResults :
                                    cancelResults[k].status = "cancelled" })

\* two orders were listed; the cancel of the first failed and the second
\* was cancelled
C29_Witness ==
  /\ route = "delete"
  /\ Done
  /\ Len(listed) = 2
  /\ Len(cancelResults) = 2
  /\ cancelResults[1].status = "failed_to_cancel"
  /\ cancelResults[2].status = "cancelled"
  /\ Len(res) = 1 /\ res[1].success /\ res[1].cancelled = 1

----------------------------------------------------------------------------
(* Validation of stock orders *)

\* a stock request the handler refuses: a required field is missing, the
\* symbol has the options-symbol format, or the side is neither buy nor sell
RefusedStockRequest ==
  \/ req.symbol = "" \/ req.side = "" \/ req.quantity = 0 \/ req.price = 0
  \/ req.symbol = "XYZ240101C00100000"
  \/ req.side \notin {"buy", "sell"}

\* C30: POST /api/orders answers 400 without making any broker call when a
\* required field is missing, when the symbol has the options-symbol format,
\* or when side is neither buy nor sell; otherwise it makes exactly one
\* createOrder call and no retry, whatever the broker answers.
C30_StockValidation ==
  route = "stock" =>
    /\ RefusedStockRequest =>
         /\ calls = <<>>
         /\ subs = <<>>
         /\ Done
         /\ Len(res) = 1
         /\ res[1].status = 400
         /\ ~res[1].success
    /\ ~RefusedStockRequest =>
         /\ calls = <<"createOrder">>
         /\ Len(subs) = 1
         /\ subs[1].via = "stock"
         /\ Done => Len(res) = 1

\* a buy of an options symbol is refused
C30_Witness ==
  /\ route = "stock"
  /\ Done
  /\ req.symbol = "XYZ240101C00100000"
  /\ req.side = "buy"
  /\ req.quantity = 10
  /\ req.price = 1446
  /\ calls = <<>>
  /\ Len(res) = 1
  /\ res[1].status = 400

====
